---- MODULE Spec2Model ----
(***************************************************************************)
(* ZeroAnalyst: the data profiling pipeline (DataCleaner, StatsEngine,     *)
(* InsightEngine) and the request handlers of the backend that run it.     *)
(*                                                                         *)
(* A table (pandas DataFrame) is a record                                  *)
(*   [columns : sequence of names, dtypes : sequence of dtypes,            *)
(*    data : sequence of rows, each row a sequence of cells]               *)
(* A cell is a record [k, n, s]: k is "nan" (null), "num", "str" or "ts".  *)
(* Numbers are fixed point with one binary digit: the field n counts       *)
(* halves, so 1.0 is 2 and 1.5 is 3; the median of an even number of whole *)
(* values is then exact.  Timestamps count days.                           *)
(***************************************************************************)
EXTENDS Integers, Sequences, FiniteSets, TLC

VARIABLES
    input,      \* the caller's table handed to DataCleaner(df)
    cleaner,    \* the DataCleaner instance: df, original_shape, cleaning_report, column_types
    cleaned,    \* the table returned by the last clean()
    report,     \* the report returned by the last clean()
    stats,      \* the bundle returned by StatsEngine.calculate_all()
    engine,     \* the InsightEngine instance: its insights list
    insights,   \* what the last generate_insights() gave back: a list, or raised
    rerun,      \* the report of a fresh DataCleaner run on `cleaned`
    disk,       \* the upload folder: file path -> table stored under it
    response,   \* the last HTTP response of the backend
    active_sessions, \* app.active_sessions: session id -> session
    now,        \* the wall clock, in whole seconds
    emptyCleaned, \* TRUE once DataCleaner.clean() ran on a table with zero rows
    pc,         \* position of the pipeline run
    second,     \* what a second, independent run of the pipeline on `input` returned
    env,        \* what the surroundings did in the last step: which columns'
                \* statistics raised, what the history request met in the database
    analysis_history \* the analysis_history table: id -> user_id

vars == <<input, cleaner, cleaned, report, stats, engine, insights, rerun,
          disk, response, active_sessions, now, emptyCleaned, pc, second,
          env, analysis_history>>

-----------------------------------------------------------------------------
(* Cells and tables                                                        *)

NaN == [k |-> "nan", n |-> 0, s |-> ""]
Num(v) == [k |-> "num", n |-> v, s |-> ""]
Str(v) == [k |-> "str", n |-> 0, s |-> v]
Ts(v) == [k |-> "ts", n |-> v, s |-> ""]

isna(c) == c.k = "nan"

Range(seq) == {seq[i] : i \in 1..Len(seq)}

RECURSIVE SelectIdx(_, _, _)
SelectIdx(seq, keep, i) ==
    IF i > Len(seq) THEN <<>>
    ELSE (IF i \in keep THEN <<seq[i]>> ELSE <<>>) \o SelectIdx(seq, keep, i + 1)

RECURSIVE SumSeq(_)
SumSeq(seq) == IF seq = <<>> THEN 0 ELSE Head(seq) + SumSeq(Tail(seq))

Abs(x) == IF x < 0 THEN -x ELSE x

\* len(df), df.shape
NRows(df) == Len(df.data)
NCols(df) == Len(df.columns)
Shape(df) == <<NRows(df), NCols(df)>>

\* df[col]: the column's position and its values, top to bottom
ColIdx(df, col) == CHOOSE i \in 1..Len(df.columns) : df.columns[i] = col
Series(df, col) == [r \in 1..Len(df.data) |-> df.data[r][ColIdx(df, col)]]
DType(df, col) == df.dtypes[ColIdx(df, col)]

\* df.drop(columns=[col])
DropColumn(df, col) ==
    LET keep == {i \in 1..Len(df.columns) : df.columns[i] # col}
    IN  [columns |-> SelectIdx(df.columns, keep, 1),
         dtypes  |-> SelectIdx(df.dtypes, keep, 1),
         data    |-> [r \in 1..Len(df.data) |-> SelectIdx(df.data[r], keep, 1)]]

\* df[col] = series  (the dtype the assignment leaves the column with is given)
SetColumn(df, col, series, dtype) ==
    LET c == ColIdx(df, col)
    IN  [columns |-> df.columns,
         dtypes  |-> [df.dtypes EXCEPT ![c] = dtype],
         data    |-> [r \in 1..Len(df.data) |-> [df.data[r] EXCEPT ![c] = series[r]]]]

\* series.fillna(value)
fillna_discarded(series, value) == series

fillna(series, value) ==
    [r \in 1..Len(series) |-> IF isna(series[r]) THEN value ELSE series[r]]

\* series.isna().sum()
MissingCount(series) == Cardinality({r \in 1..Len(series) : isna(series[r])})

\* the non-null values of a series, in row order
NonNull(series) == SelectIdx(series, {r \in 1..Len(series) : ~isna(series[r])}, 1)

-----------------------------------------------------------------------------
(* pandas reductions used by the cleaner                                   *)

\* ascending sort of a sequence of integers (insertion sort)
RECURSIVE InsertSorted(_, _)
InsertSorted(sorted, x) ==
    IF sorted = <<>> THEN <<x>>
    ELSE IF x < Head(sorted) THEN <<x>> \o sorted
    ELSE <<Head(sorted)>> \o InsertSorted(Tail(sorted), x)

RECURSIVE SortInts(_)
SortInts(seq) == IF seq = <<>> THEN <<>> ELSE InsertSorted(SortInts(Tail(seq)), Head(seq))

\* series.median(): nulls skipped; the middle value, or the mean of the two
\* middle values; NaN when nothing is left
MedianLow(series) ==
    LET v == SortInts([i \in 1..Len(NonNull(series)) |-> NonNull(series)[i].n])
        m == Len(v)
    IN  IF m = 0 THEN NaN ELSE Num(v[(m + 1) \div 2])

Median(series) ==
    LET v == SortInts([i \in 1..Len(NonNull(series)) |-> NonNull(series)[i].n])
        m == Len(v)
    IN  IF m = 0 THEN NaN
        ELSE IF m % 2 = 1 THEN Num(v[(m + 1) \div 2])
        ELSE Num((v[m \div 2] + v[m \div 2 + 1]) \div 2)

\* the order pandas sorts the modal values in: text by code point, the others
\* by number
StrOrder == <<"2020-01-01", "2020-01-02", "A", "B", "Unknown">>
StrRank(s) == CHOOSE i \in 1..Len(StrOrder) : StrOrder[i] = s
CellLess(a, b) == IF a.k = "str" THEN StrRank(a.s) < StrRank(b.s) ELSE a.n < b.n

\* series.mode(): the most frequent non-null values, sorted; empty when every
\* value is null.  ModeEmpty is .mode().empty, Mode is .mode()[0].
Count(series, v) == Cardinality({r \in 1..Len(series) : series[r] = v})
Modes(series) ==
    LET vals == Range(NonNull(series))
    IN  {v \in vals : \A w \in vals : Count(series, w) <= Count(series, v)}
ModeEmpty(series) == Modes(series) = {}
Mode(series) == CHOOSE v \in Modes(series) : \A w \in Modes(series) : w = v \/ CellLess(v, w)

-----------------------------------------------------------------------------
(* DataCleaner  (modules/data_cleaner.py)                                  *)

\* one entry of cleaning_report; the text of the f-string is kept as its parts
Action(kind, col, count, pct, val) ==
    [kind |-> kind, col |-> col, count |-> count, pct |-> pct, val |-> val]

\* f"{x:.1f}" of x = num/den*100, as a count of tenths (round half to even)
Fmt1(num, den) ==
    LET q == (1000 * num) \div den
        r == (1000 * num) % den
    IN  IF 2 * r < den THEN q
        ELSE IF 2 * r > den THEN q + 1
        ELSE IF q % 2 = 0 THEN q ELSE q + 1

\* DataCleaner.__init__.  The field shares names the frame of the caller that
\* self.df is the same object as: "input" (the table handed to __init__),
\* "returned" (the table clean() handed out) or "none"; df.copy() makes it none
NewCleanerNoCopy(df) ==
    [df |-> df, original_shape |-> Shape(df), cleaning_report |-> <<>>,
     column_types |-> <<>>, shares |-> "input"]
NewCleaner(df) ==
    [df |-> df, original_shape |-> Shape(df), cleaning_report |-> <<>>,
     column_types |-> <<>>, shares |-> "none"]

\* df.drop_duplicates(): a row equal to an earlier row goes, nulls comparing
\* equal; pandas hands back a copy of a frame without rows or without columns
drop_duplicates_keep_last(df) ==
    IF Len(df.data) = 0 \/ Len(df.columns) = 0 THEN df
    ELSE [df EXCEPT !.data =
            SelectIdx(df.data,
                      {i \in 1..Len(df.data) :
                            \A j \in (i + 1)..Len(df.data) : df.data[j] # df.data[i]}, 1)]
drop_duplicates(df) ==
    IF Len(df.data) = 0 \/ Len(df.columns) = 0 THEN df
    ELSE [df EXCEPT !.data =
            SelectIdx(df.data,
                      {i \in 1..Len(df.data) :
                            \A j \in 1..(i - 1) : df.data[j] # df.data[i]}, 1)]

\* DataCleaner._remove_duplicates: self.df = self.df.drop_duplicates() binds
\* self.df to a new frame and leaves the old one as it was
_remove_duplicates(self) ==
    LET before == NRows(self.df)
        df2 == drop_duplicates(self.df)
        after == NRows(df2)
    IN  [self EXCEPT
            !.df = df2,
            !.shares = "none",
            !.cleaning_report =
                IF before > after
                THEN Append(@, Action("dedup", "", before - after, 0, NaN))
                ELSE @]

\* the test of line 57, missing_pct > 50 with missing_pct = count / len * 100
DropTestAtLeast(missing_count, len) == missing_count * 100 >= 50 * len

DropTestNotAll(missing_count, len) ==
    missing_count * 100 > 50 * len /\ missing_count < len

\* the row count of line 54 that missing_count is divided by: len(self.df)
RowBaseOriginal(self) == self.original_shape[1]

RowBase(self) == NRows(self.df)

DropTestNever(missing_count, len) == FALSE

DropTest(missing_count, len) == missing_count * 100 > 50 * len

\* the body of the loop of _handle_missing_values for one column
HandleColumn(self, col) ==
    LET series == Series(self.df, col)
        missing_count == MissingCount(series)
        len == RowBase(self)
    IN  IF missing_count = 0 THEN self
        ELSE IF DropTest(missing_count, len)
        THEN [self EXCEPT
                !.df = DropColumn(self.df, col),
                !.shares = "none",
                !.cleaning_report =
                    Append(@, Action("drop", col, 0, Fmt1(missing_count, len), NaN))]
        ELSE IF DType(self.df, col) = "num"
        THEN LET median_val == Median(series)
             IN  [self EXCEPT
                    !.df = SetColumn(self.df, col, fillna(series, median_val), "num"),
                    !.cleaning_report =
                        Append(@, Action("median", col, missing_count, 0, median_val))]
        ELSE IF ModeEmpty(series)
        THEN [self EXCEPT
                !.df = SetColumn(self.df, col, fillna(series, Str("Unknown")),
                                 DType(self.df, col)),
                !.cleaning_report =
                    Append(@, Action("unknown", col, missing_count, 0, Str("Unknown")))]
        ELSE LET mode_val == Mode(series)
             IN  [self EXCEPT
                    !.df = SetColumn(self.df, col, fillna(series, mode_val),
                                     DType(self.df, col)),
                    !.cleaning_report =
                        Append(@, Action("mode", col, missing_count, 0, mode_val))]

\* DataCleaner._handle_missing_values: the loop runs over the column index taken
\* when it starts, so a drop inside the loop does not disturb the iteration
RECURSIVE HandleLoopLive(_, _, _)
HandleLoopLive(self, cols, i) ==
    IF i > Len(self.df.columns) THEN self
    ELSE HandleLoopLive(HandleColumn(self, self.df.columns[i]), cols, i + 1)
RECURSIVE HandleLoop(_, _, _)
HandleLoop(self, cols, i) ==
    IF i > Len(cols) THEN self
    ELSE HandleLoop(HandleColumn(self, cols[i]), cols, i + 1)

_handle_missing_values(self) == HandleLoop(self, self.df.columns, 1)

\* pd.to_datetime(series, errors='raise'): the texts that parse and the day each
\* one denotes; any other text raises
DateStrings == {"2020-01-01", "2020-01-02"}
DateValue(s) == IF s = "2020-01-01" THEN 18262 ELSE 18263
ParsesAnyDate(series) ==
    \E r \in 1..Len(series) : series[r].k = "str" /\ series[r].s \in DateStrings
ParsesAsDates(series) ==
    \A r \in 1..Len(series) :
        isna(series[r]) \/ (series[r].k = "str" /\ series[r].s \in DateStrings)
to_datetime(series) ==
    [r \in 1..Len(series) |->
        IF isna(series[r]) THEN NaN ELSE Ts(DateValue(series[r].s))]

\* the body of the loop of _detect_column_types for one column: st is the pair
\* of self.df and self.column_types (a dict, kept as its items in insertion order)
DetectColumnUntagged(st, col) ==
    LET dtype == DType(st.df, col)
        series == Series(st.df, col)
    IN  IF dtype = "num"
        THEN [st EXCEPT !.column_types = Append(@, [col |-> col, type |-> "numeric"])]
        ELSE IF dtype = "dt"
        THEN [st EXCEPT !.column_types = Append(@, [col |-> col, type |-> "datetime"])]
        ELSE IF ParsesAsDates(series)
        THEN [st EXCEPT !.df = SetColumn(st.df, col, to_datetime(series), "dt")]
        ELSE [st EXCEPT !.column_types = Append(@, [col |-> col, type |-> "categorical"])]

DetectColumn(st, col) ==
    LET dtype == DType(st.df, col)
        series == Series(st.df, col)
    IN  IF dtype = "num"
        THEN [st EXCEPT !.column_types = Append(@, [col |-> col, type |-> "numeric"])]
        ELSE IF dtype = "dt"
        THEN [st EXCEPT !.column_types = Append(@, [col |-> col, type |-> "datetime"])]
        ELSE IF ParsesAsDates(series)
        THEN [st EXCEPT
                !.df = SetColumn(st.df, col, to_datetime(series), "dt"),
                !.column_types = Append(@, [col |-> col, type |-> "datetime"])]
        ELSE [st EXCEPT !.column_types = Append(@, [col |-> col, type |-> "categorical"])]

RECURSIVE DetectLoop(_, _, _)
DetectLoop(st, cols, i) ==
    IF i > Len(cols) THEN st
    ELSE DetectLoop(DetectColumn(st, cols[i]), cols, i + 1)

\* DataCleaner._detect_column_types
_detect_column_types(self) ==
    LET st == DetectLoop([df |-> self.df, column_types |-> <<>>], self.df.columns, 1)
    IN  [self EXCEPT !.df = st.df, !.column_types = st.column_types]

\* DataCleaner.clean: the instance after the call; the returned pair is
\* (self.df, CleanReport(self))
\* DataCleaner.clean, as far as it changes the instance; return self.df hands
\* the instance's own frame to the caller
CleanSelf(self) ==
    [_detect_column_types(_handle_missing_values(_remove_duplicates(self)))
        EXCEPT !.shares = "returned"]

\* what a frame the caller holds (name: "input" or "returned") contains after
\* self.clean(): the assignments self.df[col] = ... of the imputations and of
\* the date conversion write into the frame self.df names, so they reach the
\* caller's frame exactly when self.df still names it after line 39
CallerTable(table, name, self) ==
    IF _remove_duplicates(self).shares = name THEN CleanSelf(self).df ELSE table

\* the report dict built by clean(): 'actions' is the instance's own list object
\* (owner names the instance), 'column_types' the dict this call created
CleanReportCurrentShape(self, owner) ==
    [original_rows |-> NRows(self.df),
     original_cols |-> NCols(self.df),
     cleaned_rows  |-> NRows(self.df),
     cleaned_cols  |-> NCols(self.df),
     actions       |-> owner,
     column_types  |-> self.column_types]
CleanReport(self, owner) ==
    [original_rows |-> self.original_shape[1],
     original_cols |-> self.original_shape[2],
     cleaned_rows  |-> NRows(self.df),
     cleaned_cols  |-> NCols(self.df),
     actions       |-> owner,
     column_types  |-> self.column_types]

\* dict views of column_types
Keys(column_types) == {column_types[i].col : i \in 1..Len(column_types)}
ColumnsOfType(column_types, type) ==
    LET keep == {i \in 1..Len(column_types) : column_types[i].type = type}
        sel == SelectIdx(column_types, keep, 1)
    IN  [i \in 1..Len(sel) |-> sel[i].col]

-----------------------------------------------------------------------------
(* StatsEngine  (modules/stats_engine.py)                                  *)

\* a float that is a quotient of integers, or NaN
Rat(num, den) == [nan |-> FALSE, num |-> num, den |-> den]
RatNaN == [nan |-> TRUE, num |-> 0, den |-> 1]

\* the numbers of a numeric series, nulls skipped
Values(series) == [i \in 1..Len(NonNull(series)) |-> NonNull(series)[i].n]
SumSq(v) == SumSeq([i \in 1..Len(v) |-> v[i] * v[i]])
SumProd(v, w) == SumSeq([i \in 1..Len(v) |-> v[i] * w[i]])

\* series.mean(): NaN for an empty series
Mean(v) == IF Len(v) = 0 THEN RatNaN ELSE Rat(SumSeq(v), Len(v))

\* series.std() squared: the sample variance (divisor n-1), NaN for n <= 1
Var(v) ==
    LET n == Len(v)
    IN  IF n <= 1 THEN RatNaN
        ELSE Rat(n * SumSq(v) - SumSeq(v) * SumSeq(v), n * (n - 1))

\* an overview that does not count the datetime columns
_get_overview_no_datetime(df, column_types) ==
    [total_rows |-> NRows(df),
     total_columns |-> NCols(df),
     numeric_columns |-> Len(ColumnsOfType(column_types, "numeric")),
     categorical_columns |-> Len(ColumnsOfType(column_types, "categorical")),
     datetime_columns |-> 0]

\* StatsEngine._get_overview
_get_overview(df, column_types) ==
    [total_rows |-> NRows(df),
     total_columns |-> NCols(df),
     numeric_columns |-> Len(ColumnsOfType(column_types, "numeric")),
     categorical_columns |-> Len(ColumnsOfType(column_types, "categorical")),
     datetime_columns |-> Len(ColumnsOfType(column_types, "datetime"))]

\* StatsEngine._get_numeric_stats: one record per numeric column, in type-map
\* order; std is kept as its square (the variance), min and max as cells
NumericStat(df, col) ==
    LET v == Values(Series(df, col))
        sorted == SortInts(v)
    IN  [col |-> col,
         mean |-> Mean(v),
         median |-> Median(Series(df, col)),
         std2 |-> Var(v),
         min |-> IF Len(v) = 0 THEN NaN ELSE Num(sorted[1]),
         max |-> IF Len(v) = 0 THEN NaN ELSE Num(sorted[Len(v)]),
         sum |-> SumSeq(v),
         count |-> Len(v)]

_get_numeric_stats(df, column_types) ==
    LET numeric_cols == ColumnsOfType(column_types, "numeric")
    IN  [i \in 1..Len(numeric_cols) |-> NumericStat(df, numeric_cols[i])]

\* series.value_counts(): the distinct non-null values, most frequent first,
\* equal counts in order of first appearance
FirstIndex(series, v) == CHOOSE r \in 1..Len(series) : series[r] = v /\ \A q \in 1..(r - 1) : series[q] # v
RECURSIVE ValueCountsOf(_, _)
ValueCountsOf(series, vals) ==
    IF vals = {} THEN <<>>
    ELSE LET top == CHOOSE v \in vals :
                        \A w \in vals :
                            \/ Count(series, w) < Count(series, v)
                            \/ /\ Count(series, w) = Count(series, v)
                               /\ FirstIndex(series, v) <= FirstIndex(series, w)
         IN  <<[value |-> top, count |-> Count(series, top)]>>
                \o ValueCountsOf(series, vals \ {top})
value_counts(series) == ValueCountsOf(series, Range(NonNull(series)))

\* StatsEngine._get_categorical_stats
CategoricalStat(df, col) ==
    LET vc == value_counts(Series(df, col))
    IN  [col |-> col,
         unique_values |-> Len(vc),
         most_common |-> IF Len(vc) > 0 THEN vc[1].value ELSE Str("N/A"),
         most_common_count |-> IF Len(vc) > 0 THEN vc[1].count ELSE 0,
         top_5 |-> SubSeq(vc, 1, IF Len(vc) < 5 THEN Len(vc) ELSE 5)]

_get_categorical_stats(df, column_types) ==
    LET categorical_cols == ColumnsOfType(column_types, "categorical")
    IN  [i \in 1..Len(categorical_cols) |-> CategoricalStat(df, categorical_cols[i])]

\* DataFrame.corr() for one pair: Pearson's r, kept as its sign and its square
\* cov^2 / (var_x * var_y); NaN when either column has no variance
Corr(df, c1, c2) ==
    LET x == Values(Series(df, c1))
        y == Values(Series(df, c2))
        n == Len(x)
        cov == n * SumProd(x, y) - SumSeq(x) * SumSeq(y)
        vx == n * SumSq(x) - SumSeq(x) * SumSeq(x)
        vy == n * SumSq(y) - SumSeq(y) * SumSeq(y)
    IN  IF n = 0 \/ vx * vy = 0
        THEN [nan |-> TRUE, sign |-> 0, num |-> 0, den |-> 1]
        ELSE [nan |-> FALSE, sign |-> IF cov > 0 THEN 1 ELSE IF cov < 0 THEN -1 ELSE 0,
              num |-> cov * cov, den |-> vx * vy]

\* abs(a) < abs(b) on correlations, as Python compares floats: False when
\* either is NaN
AbsLess(a, b) == ~a.nan /\ ~b.nan /\ a.num * b.den < b.num * a.den

\* the pairs (i, j), i < j, in the order the two loops of lines 102-108 make them
RECURSIVE PairsFrom(_, _, _, _)
PairsFrom(df, cols, i, j) ==
    IF i > Len(cols) THEN <<>>
    ELSE IF j > Len(cols) THEN PairsFrom(df, cols, i + 1, i + 2)
    ELSE <<[col1 |-> cols[i], col2 |-> cols[j],
            correlation |-> Corr(df, cols[i], cols[j])]>>
            \o PairsFrom(df, cols, i, j + 1)

Reverse(seq) == [i \in 1..Len(seq) |-> seq[Len(seq) + 1 - i]]

\* list.sort of a short list (fewer than 64 entries): the leading run is found,
\* reversed when strictly descending, and the rest is inserted by binary search
RECURSIVE RunEnd(_, _, _)
RunEnd(xs, i, descending) ==
    IF i > Len(xs) THEN Len(xs)
    ELSE IF descending = AbsLess(xs[i].correlation, xs[i - 1].correlation)
         THEN RunEnd(xs, i + 1, descending)
         ELSE i - 1

RECURSIVE BinarySearch(_, _, _, _)
BinarySearch(xs, pivot, l, r) ==
    IF l >= r THEN l
    ELSE LET p == l + (r - l) \div 2
         IN  IF AbsLess(pivot.correlation, xs[p + 1].correlation)
             THEN BinarySearch(xs, pivot, l, p)
             ELSE BinarySearch(xs, pivot, p + 1, r)

RECURSIVE BinarySort(_, _)
BinarySort(xs, start) ==
    IF start >= Len(xs) THEN xs
    ELSE LET pivot == xs[start + 1]
             l == BinarySearch(xs, pivot, 0, start)
         IN  BinarySort(SubSeq(xs, 1, l) \o <<pivot>> \o SubSeq(xs, l + 1, start)
                            \o SubSeq(xs, start + 2, Len(xs)), start + 1)

SortAscending(xs) ==
    IF Len(xs) < 2 THEN xs
    ELSE LET descending == AbsLess(xs[2].correlation, xs[1].correlation)
             n == RunEnd(xs, 3, descending)
             run == IF descending
                    THEN Reverse(SubSeq(xs, 1, n)) \o SubSeq(xs, n + 1, Len(xs))
                    ELSE xs
         IN  BinarySort(run, n)

\* correlations.sort(key=lambda x: abs(x['correlation']), reverse=True)
SortByAbsDesc(xs) == Reverse(SortAscending(Reverse(xs)))

\* StatsEngine._get_correlations: {} when fewer than two numeric columns
_get_correlations_uncapped(df, column_types) ==
    LET numeric_cols == ColumnsOfType(column_types, "numeric")
        correlations == SortByAbsDesc(PairsFrom(df, numeric_cols, 1, 2))
    IN  IF Len(numeric_cols) < 2 THEN [top_correlations |-> <<>>, present |-> FALSE]
        ELSE [top_correlations |-> correlations, present |-> TRUE]

_get_correlations(df, column_types) ==
    LET numeric_cols == ColumnsOfType(column_types, "numeric")
        correlations == SortByAbsDesc(PairsFrom(df, numeric_cols, 1, 2))
    IN  IF Len(numeric_cols) < 2 THEN [top_correlations |-> <<>>, present |-> FALSE]
        ELSE [top_correlations |->
                SubSeq(correlations, 1, IF Len(correlations) < 5 THEN Len(correlations) ELSE 5),
              present |-> TRUE]

\* StatsEngine.calculate_all
calculate_all(df, column_types) ==
    [overview |-> _get_overview(df, column_types),
     numeric_stats |-> _get_numeric_stats(df, column_types),
     categorical_stats |-> _get_categorical_stats(df, column_types),
     correlations |-> _get_correlations(df, column_types)]

-----------------------------------------------------------------------------
(* InsightEngine  (modules/insight_engine.py)                              *)

\* one insight string, kept as the rule that wrote it and the values it cites
Obs(rule, col, label, a, b) ==
    [rule |-> rule, col |-> col, label |-> label, a |-> a, b |-> b]

\* the state of a rule pass: self.insights, and whether an exception is in flight
Pass(ins, raised) == [insights |-> ins, raised |-> raised]

\* std_val > 0 on a float that may be NaN
StdPositive(std2) == ~std2.nan /\ std2.num > 0

\* cv > 50 with cv = std / mean * 100, for std > 0 and mean # 0:
\* std / mean > 1/2, that is mean > 0 and 4 * std^2 > mean^2
CVAbove50(mean, std2) ==
    /\ mean.num > 0
    /\ 4 * std2.num * mean.den * mean.den > mean.num * mean.num * std2.den

\* the loop body of _analyze_numeric_columns; std / mean raises
\* ZeroDivisionError when the mean is 0.0
NumericRuleAnyStd(st, col_stats) ==
    IF st.raised THEN st
    ELSE IF col_stats.std2.nan THEN st
    ELSE IF col_stats.mean.num = 0 THEN Pass(st.insights, TRUE)
    ELSE IF CVAbove50(col_stats.mean, col_stats.std2)
    THEN Pass(Append(st.insights, Obs("high_variability", col_stats.col, "", 0, 0)), FALSE)
    ELSE Pass(Append(st.insights, Obs("consistent", col_stats.col, "", 0, 0)), FALSE)

NumericRule(st, col_stats) ==
    IF st.raised THEN st
    ELSE IF ~StdPositive(col_stats.std2) THEN st
    ELSE IF col_stats.mean.num = 0 THEN Pass(st.insights, TRUE)
    ELSE IF CVAbove50(col_stats.mean, col_stats.std2)
    THEN Pass(Append(st.insights, Obs("high_variability", col_stats.col, "", 0, 0)), FALSE)
    ELSE Pass(Append(st.insights, Obs("consistent", col_stats.col, "", 0, 0)), FALSE)

RECURSIVE NumericLoop(_, _, _)
NumericLoop(st, numeric_stats, i) ==
    IF i > Len(numeric_stats) THEN st
    ELSE NumericLoop(NumericRule(st, numeric_stats[i]), numeric_stats, i + 1)

\* InsightEngine._analyze_numeric_columns
_analyze_numeric_columns(st, bundle) == NumericLoop(st, bundle.numeric_stats, 1)

\* the loop body of _analyze_categorical_columns; the cited percentage is kept
\* in tenths; count / total_rows raises ZeroDivisionError when total_rows is 0
CategoricalRuleAtLeast(st, col_stats, total_rows) ==
    IF st.raised THEN st
    ELSE IF total_rows = 0 THEN Pass(st.insights, TRUE)
    ELSE IF col_stats.most_common_count * 100 >= 50 * total_rows
    THEN Pass(Append(st.insights,
                     Obs("dominates", col_stats.col, col_stats.most_common.s,
                         Fmt1(col_stats.most_common_count, total_rows), 0)), FALSE)
    ELSE Pass(Append(st.insights,
                     Obs("unique", col_stats.col, col_stats.most_common.s,
                         Fmt1(col_stats.most_common_count, total_rows),
                         col_stats.unique_values)), FALSE)

CategoricalRule(st, col_stats, total_rows) ==
    IF st.raised THEN st
    ELSE IF total_rows = 0 THEN Pass(st.insights, TRUE)
    ELSE IF col_stats.most_common_count * 100 > 50 * total_rows
    THEN Pass(Append(st.insights,
                     Obs("dominates", col_stats.col, col_stats.most_common.s,
                         Fmt1(col_stats.most_common_count, total_rows), 0)), FALSE)
    ELSE Pass(Append(st.insights,
                     Obs("unique", col_stats.col, col_stats.most_common.s,
                         Fmt1(col_stats.most_common_count, total_rows),
                         col_stats.unique_values)), FALSE)

RECURSIVE CategoricalLoop(_, _, _, _)
CategoricalLoop(st, categorical_stats, total_rows, i) ==
    IF i > Len(categorical_stats) THEN st
    ELSE CategoricalLoop(CategoricalRule(st, categorical_stats[i], total_rows),
                         categorical_stats, total_rows, i + 1)

\* InsightEngine._analyze_categorical_columns
_analyze_categorical_columns(st, bundle) ==
    IF st.raised THEN st
    ELSE CategoricalLoop(st, bundle.categorical_stats, bundle.overview.total_rows, 1)

\* the halves of a column of _analyze_trends: their sums and lengths
HalfSums(values) ==
    LET mid_point == Len(values) \div 2
    IN  [s1 |-> SumSeq(SubSeq(values, 1, mid_point)), n1 |-> mid_point,
         s2 |-> SumSeq(SubSeq(values, mid_point + 1, Len(values))),
         n2 |-> Len(values) - mid_point]

\* the guard of line 89 on the first half's mean
FirstHalfGuardNonZero(h) == h.s1 # 0

FirstHalfGuard(h) == h.s1 > 0

\* change_pct = (mean2 - mean1) / mean1 * 100 has the sign of D / s1 and the
\* size |D| * 100 / (|s1| * n2), with D = s2 * n1 - s1 * n2
ChangeNum(h) == h.s2 * h.n1 - h.s1 * h.n2
ChangeAbove10(h) == Abs(ChangeNum(h)) * 100 > 10 * Abs(h.s1) * h.n2
ChangePositive(h) == (ChangeNum(h) > 0 /\ h.s1 > 0) \/ (ChangeNum(h) < 0 /\ h.s1 < 0)

\* the loop body of _analyze_trends for one column
TrendRule(st, df, col) ==
    LET values == Values(Series(df, col))
        h == HalfSums(values)
    IN  IF Len(values) < 3 THEN st
        ELSE IF FirstHalfGuard(h) /\ ChangeAbove10(h)
        THEN Pass(Append(st.insights,
                         Obs("trend", col, IF ChangePositive(h) THEN "upward" ELSE "downward",
                             0, 0)), FALSE)
        ELSE st

\* how many numeric columns the loop of line 78 visits: numeric_cols[:2]
TrendColumns(numeric_cols) ==
    SubSeq(numeric_cols, 1, IF Len(numeric_cols) < 2 THEN Len(numeric_cols) ELSE 2)

RECURSIVE TrendLoop(_, _, _, _)
TrendLoop(st, df, cols, i) ==
    IF i > Len(cols) THEN st
    ELSE TrendLoop(TrendRule(st, df, cols[i]), df, cols, i + 1)

\* InsightEngine._analyze_trends
_analyze_trends(st, df, column_types) ==
    IF st.raised THEN st
    ELSE TrendLoop(st, df, TrendColumns(ColumnsOfType(column_types, "numeric")), 1)

\* abs(corr_val) > 0.7, False for NaN
StrongCorrelationLow(c) == ~c.nan /\ 100 * c.num > 16 * c.den

StrongCorrelation(c) == ~c.nan /\ 100 * c.num > 49 * c.den

\* InsightEngine._analyze_correlations
_analyze_correlations(st, bundle) ==
    LET top_corr == bundle.correlations.top_correlations
    IN  IF st.raised THEN st
        ELSE IF Len(top_corr) > 0 /\ StrongCorrelation(top_corr[1].correlation)
        THEN Pass(Append(st.insights,
                         Obs("correlation", top_corr[1].col1,
                             IF top_corr[1].correlation.sign > 0
                             THEN "strong positive" ELSE "strong negative", 0, 0)), FALSE)
        ELSE st

\* InsightEngine._analyze_data_quality
_analyze_data_quality(st, bundle) ==
    IF st.raised THEN st
    ELSE Pass(Append(st.insights,
                     Obs("quality", "", "", bundle.overview.total_rows,
                         bundle.overview.total_columns)), FALSE)

\* the five rule passes of generate_insights, run on self.insights as it stands
RunRulesTrendsFirst(self_insights, df, column_types, bundle) ==
    _analyze_data_quality(
        _analyze_correlations(
            _analyze_categorical_columns(
                _analyze_numeric_columns(
                    _analyze_trends(Pass(self_insights, FALSE), df, column_types),
                    bundle),
                bundle),
            bundle),
        bundle)

RunRules(self_insights, df, column_types, bundle) ==
    _analyze_data_quality(
        _analyze_correlations(
            _analyze_trends(
                _analyze_categorical_columns(
                    _analyze_numeric_columns(Pass(self_insights, FALSE), bundle),
                    bundle),
                df, column_types),
            bundle),
        bundle)

\* the cap of line 28: self.insights[:7]
InsightCap == 7
CappedShort(ins) == SubSeq(ins, 1, IF Len(ins) < InsightCap - 1 THEN Len(ins) ELSE InsightCap - 1)

Capped(ins) == SubSeq(ins, 1, IF Len(ins) < InsightCap THEN Len(ins) ELSE InsightCap)

-----------------------------------------------------------------------------
(* Input tables                                                            *)

MaxRows == 3        \* rows of an input table

\* the dtype pandas reads a column as
DtypeOf(name) ==
    IF name \in {"category", "kind"} THEN "obj"
    ELSE IF name = "when" THEN "dt" ELSE "num"

\* the cells a column may hold (whole numbers, in halves)
Domain(name) ==
    CASE name = "x" -> {NaN, Num(2), Num(4)}
      [] name = "category" -> {NaN, Str("A"), Str("B"), Str("2020-01-01")}
      [] name = "when" -> {NaN, Ts(18262)}
      [] name = "n1" -> {Num(-20), Num(0), Num(20), Num(24)}
      [] name = "kind" -> {Str("A"), Str("B")}
      [] OTHER -> {Num(2), Num(4)}

\* tables with nulls and duplicates, for the cleaner
CleanSchemas == {<<"x">>, <<"category">>, <<"x", "category">>, <<"category", "x">>,
                 <<"x", "when">>}
\* tables of numbers without nulls, for the statistics and the insight rules
InsightSchemas == {<<"n1">>, <<"n1", "n2">>, <<"n2", "n3", "n4">>,
                   <<"n2", "n3", "n4", "kind">>}

\* two fixed tables: ten distinct rows with category 'A' six times and 'B' four
\* times beside a column that is all null; and three rows with y = 2x
ScenarioA ==
    [columns |-> <<"id", "category", "empty_col">>,
     dtypes |-> <<"num", "obj", "num">>,
     data |-> [r \in 1..10 |-> <<Num(2 * r), Str(IF r <= 6 THEN "A" ELSE "B"), NaN>>]]
ScenarioB ==
    [columns |-> <<"x", "y">>,
     dtypes |-> <<"num", "num">>,
     data |-> [r \in 1..3 |-> <<Num(2 * r), Num(4 * r)>>]]

\* tables with up to four numeric columns (six pairs), for the correlations
CorrSchemas == {<<"n1">>, <<"n2", "n3">>, <<"n2", "n3", "n4", "n5">>}

RECURSIVE RowsOver(_, _)
RowsOver(schema, c) ==
    IF c = 0 THEN {<<>>}
    ELSE {Append(row, v) : row \in RowsOver(schema, c - 1), v \in Domain(schema[c])}

Table(schema, data) ==
    [columns |-> schema,
     dtypes |-> [i \in 1..Len(schema) |-> DtypeOf(schema[i])],
     data |-> data]

-----------------------------------------------------------------------------
(* The pipeline, one call at a time                                        *)

\* InsightEngine.__init__: self.insights = [], whatever list an engine built
\* earlier holds
NewInsightsShared(earlier) == earlier

NewInsights(earlier) == <<>>

\* one whole run as analyze_data makes it, with a DataCleaner, a StatsEngine and
\* an InsightEngine of its own: what the three calls return
Pipeline(df, earlier) ==
    LET self == CleanSelf(NewCleaner(df))
        bundle == calculate_all(self.df, self.column_types)
        st == RunRules(NewInsights(earlier), self.df, self.column_types, bundle)
    IN  [cleaned |-> self.df,
         report |-> CleanReport(self, "cleaner"),
         actions |-> self.cleaning_report,
         stats |-> bundle,
         insights |-> IF st.raised THEN [raised |-> TRUE, list |-> <<>>]
                      ELSE [raised |-> FALSE, list |-> Capped(st.insights)]]

EmptyTable == [columns |-> <<>>, dtypes |-> <<>>, data |-> <<>>]
NoStats == calculate_all(EmptyTable, <<>>)
NoReport == CleanReport(NewCleaner(EmptyTable), "none")

Init ==
    /\ input = EmptyTable
    /\ cleaner = NewCleaner(EmptyTable)
    /\ cleaned = EmptyTable
    /\ report = NoReport
    /\ stats = NoStats
    /\ engine = [insights |-> <<>>]
    /\ insights = [raised |-> FALSE, list |-> <<>>]
    /\ rerun = [actions |-> <<>>, df |-> EmptyTable, column_types |-> <<>>]
    /\ disk = [f \in {} |-> EmptyTable]
    /\ response = 0
    /\ active_sessions = [id \in {} |-> ""]
    /\ now = 0
    /\ emptyCleaned = FALSE
    /\ pc = "idle"
    /\ second = Pipeline(EmptyTable, <<>>)
    /\ env = [op |-> "none"]
    /\ analysis_history = [id \in {} |-> ""]

\* cleaner = DataCleaner(df)
Construct(df) ==
    /\ pc = "idle"
    /\ input' = df
    /\ cleaner' = NewCleaner(df)
    /\ pc' = "new"
    /\ UNCHANGED <<cleaned, report, stats, engine, insights, rerun, disk, response,
                   active_sessions, now, emptyCleaned, second,
                   env, analysis_history>>

\* cleaned_df, cleaning_report = cleaner.clean()
Clean ==
    /\ pc = "new"
    /\ cleaner' = CleanSelf(cleaner)
    /\ cleaned' = cleaner'.df
    /\ report' = CleanReport(cleaner', "cleaner")
    /\ input' = CallerTable(input, "input", cleaner)
    /\ emptyCleaned' = (emptyCleaned \/ NRows(cleaner.df) = 0)
    /\ pc' = "cleaned"
    /\ UNCHANGED <<stats, engine, insights, rerun, disk, response,
                   active_sessions, now, second,
                   env, analysis_history>>

\* stats = StatsEngine(cleaned_df, column_types).calculate_all()
CalculateAll ==
    /\ pc = "cleaned"
    /\ stats' = calculate_all(cleaned, report.column_types)
    /\ pc' = "stats"
    /\ UNCHANGED <<input, cleaner, cleaned, report, engine, insights, rerun, disk,
                   response, active_sessions, now, emptyCleaned, second,
                   env, analysis_history>>

\* insight_engine = InsightEngine(cleaned_df, column_types, stats)
NewEngine ==
    /\ pc = "stats"
    /\ engine' = [insights |-> NewInsights(engine.insights)]
    /\ pc' = "engine"
    /\ UNCHANGED <<input, cleaner, cleaned, report, stats, insights, rerun, disk,
                   response, active_sessions, now, emptyCleaned, second,
                   env, analysis_history>>

\* insights = insight_engine.generate_insights()
GenerateInsights ==
    /\ pc = "engine"
    /\ LET st == RunRules(engine.insights, cleaned, report.column_types, stats)
       IN  /\ engine' = [insights |-> st.insights]
           /\ insights' = IF st.raised THEN [raised |-> TRUE, list |-> <<>>]
                          ELSE [raised |-> FALSE, list |-> Capped(st.insights)]
    /\ pc' = "insights"
    /\ UNCHANGED <<input, cleaner, cleaned, report, stats, rerun, disk, response,
                   active_sessions, now, emptyCleaned, second,
                   env, analysis_history>>

\* DataCleaner(cleaned_df).clean(): a fresh cleaner run on the first one's output
Reclean ==
    /\ pc = "cleaned"
    /\ LET again == CleanSelf(NewCleaner(cleaned))
       IN  rerun' = [actions |-> again.cleaning_report, df |-> again.df,
                     column_types |-> again.column_types]
    /\ cleaned' = CallerTable(cleaned, "input", NewCleaner(cleaned))
    /\ emptyCleaned' = (emptyCleaned \/ NRows(cleaned) = 0)
    /\ pc' = "recleaned"
    /\ UNCHANGED <<input, cleaner, report, stats, engine, insights, disk,
                   response, active_sessions, now, second,
                   env, analysis_history>>

\* the caller builds a table over one of the schemas and hands it to the cleaner
ConstructClean ==
    /\ pc = "idle"
    /\ \E schema \in CleanSchemas, r \in 1..MaxRows :
        \E data \in [1..r -> RowsOver(schema, Len(schema))] :
            Construct(Table(schema, data))

ConstructInsight ==
    /\ pc = "idle"
    /\ \/ \E schema \in InsightSchemas, r \in 1..MaxRows :
            \E data \in [1..r -> RowsOver(schema, Len(schema))] :
                Construct(Table(schema, data))
       \/ \E df \in {ScenarioA, ScenarioB} : Construct(df)

Next == ConstructClean \/ Clean \/ Reclean
Spec == Init /\ [][Next]_vars

ConstructCorr ==
    /\ pc = "idle"
    /\ \E schema \in CorrSchemas, r \in 1..MaxRows :
        \E data \in [1..r -> RowsOver(schema, Len(schema))] :
            Construct(Table(schema, data))

NextCorr == ConstructCorr \/ Clean \/ CalculateAll
SpecCorr == Init /\ [][NextCorr]_vars

NextInsight == ConstructInsight \/ Clean \/ CalculateAll \/ NewEngine \/ GenerateInsights
SpecInsight == Init /\ [][NextInsight]_vars

\* a statistics pass that gives up at the first column that raises
PartialStatsAbort(bundle, raising) ==
    IF raising = {} THEN bundle
    ELSE [bundle EXCEPT !.numeric_stats = <<>>, !.categorical_stats = <<>>]

\* StatsEngine._get_numeric_stats / _get_categorical_stats when the reductions
\* of the columns in `raising` raise (a column of values pandas cannot reduce):
\* the except clause prints and continues, so the entry is never stored
PartialStats(bundle, raising) ==
    [bundle EXCEPT
        !.numeric_stats = SelectSeq(@, LAMBDA e : e.col \notin raising),
        !.categorical_stats = SelectSeq(@, LAMBDA e : e.col \notin raising)]

\* stats = StatsEngine(cleaned_df, column_types).calculate_all(), the reductions
\* of any set of columns raising
CalculateAllPartial ==
    /\ pc = "cleaned"
    /\ \E raising \in SUBSET Range(cleaned.columns) :
        /\ stats' = PartialStats(calculate_all(cleaned, report.column_types), raising)
        /\ env' = [op |-> "calculate_all", raising |-> raising]
    /\ pc' = "stats"
    /\ UNCHANGED <<input, cleaner, cleaned, report, engine, insights, rerun, disk,
                   response, active_sessions, now, emptyCleaned, second,
                   analysis_history>>

\* tables of numbers and labels without nulls, for the partial statistics
PartialSchemas == {<<"n1", "n2">>, <<"n1", "kind">>, <<"n2", "kind", "n3">>}

ConstructPartial ==
    /\ pc = "idle"
    /\ \E schema \in PartialSchemas, r \in 1..MaxRows :
        \E data \in [1..r -> RowsOver(schema, Len(schema))] :
            Construct(Table(schema, data))

NextPartial ==
    ConstructPartial \/ Clean \/ CalculateAllPartial \/ NewEngine \/ GenerateInsights
SpecPartial == Init /\ [][NextPartial]_vars

\* cleaner.clean() a second time on the instance that has already cleaned: the
\* duplicates its own imputations made go, and their record is appended to
\* self.cleaning_report, the list the first report holds as 'actions'.  What
\* the second call returns is kept in rerun.
CleanAgain ==
    /\ pc = "cleaned"
    /\ cleaner' = CleanSelf(cleaner)
    /\ rerun' = [actions |-> cleaner'.cleaning_report, df |-> cleaner'.df,
                 column_types |-> cleaner'.column_types]
    /\ input' = CallerTable(input, "input", cleaner)
    /\ cleaned' = CallerTable(cleaned, "returned", cleaner)
    /\ pc' = "again"
    /\ UNCHANGED <<report, stats, engine, insights, disk, response,
                   active_sessions, now, emptyCleaned, second,
                   env, analysis_history>>

\* DataCleaner.get_preview: reads self.df and self.column_types
get_preview(self, rows) ==
    [columns |-> self.df.columns,
     data |-> SubSeq(self.df.data, 1, IF NRows(self.df) < rows THEN NRows(self.df) ELSE rows),
     shape |-> Shape(self.df),
     column_types |-> self.column_types]

\* cleaner.get_preview() after clean()
GetPreview ==
    /\ pc \in {"cleaned", "again"}
    /\ env' = [op |-> "get_preview", preview |-> get_preview(cleaner, 10)]
    /\ UNCHANGED <<input, cleaner, cleaned, report, stats, engine, insights, rerun,
                   disk, response, active_sessions, now, emptyCleaned, pc, second,
                   analysis_history>>

NextAgain == ConstructClean \/ Clean \/ CleanAgain \/ GetPreview
SpecAgain == Init /\ [][NextAgain]_vars

\* insight_engine.generate_insights() a second time on the same instance: the
\* rules append to self.insights as the first call left it (only __init__ sets
\* it to []), and the first seven entries of the whole list are returned
GenerateInsightsAgain ==
    /\ pc = "insights"
    /\ LET st == RunRules(engine.insights, cleaned, report.column_types, stats)
       IN  /\ engine' = [insights |-> st.insights]
           /\ insights' = IF st.raised THEN [raised |-> TRUE, list |-> <<>>]
                          ELSE [raised |-> FALSE, list |-> Capped(st.insights)]
    /\ pc' = "insights_again"
    /\ UNCHANGED <<input, cleaner, cleaned, report, stats, rerun, disk, response,
                   active_sessions, now, emptyCleaned, second,
                   env, analysis_history>>

\* tables of one to three columns, for the repeated call
RepeatSchemas == {<<"n1">>, <<"n2", "kind">>, <<"n2", "n3", "kind">>}

ConstructRepeat ==
    /\ pc = "idle"
    /\ \E schema \in RepeatSchemas, r \in 1..MaxRows :
        \E data \in [1..r -> RowsOver(schema, Len(schema))] :
            Construct(Table(schema, data))

NextRepeat ==
    \/ ConstructRepeat \/ Clean \/ CalculateAll \/ NewEngine \/ GenerateInsights
    \/ GenerateInsightsAgain
SpecRepeat == Init /\ [][NextRepeat]_vars

-----------------------------------------------------------------------------
(* The analysis history  (routes/history.py, modules/supabase_client.py)    *)

Users == {"u1", "u2"}
HistoryIds == {"h1", "h2", "h3"}

\* SupabaseDB.save_analysis: inserts a row under an id the table does not hold
\* and returns it, or raises
save_analysis(table, id, user_id, raises) ==
    IF raises THEN [raised |-> TRUE, id |-> "", table |-> table]
    ELSE [raised |-> FALSE, id |-> id,
          table |-> [h \in DOMAIN table \cup {id} |->
                        IF h = id THEN user_id ELSE table[h]]]

\* SupabaseDB.delete_analysis: deletes the rows with this id and this user_id,
\* none when there is no such row, and returns True; raises when the call fails
delete_analysis(table, analysis_id, user_id, raises) ==
    IF raises THEN [raised |-> TRUE, value |-> FALSE, table |-> table]
    ELSE [raised |-> FALSE, value |-> TRUE,
          table |-> [h \in {k \in DOMAIN table :
                                ~(k = analysis_id /\ table[k] = user_id)} |-> table[h]]]

\* the status delete_history_item answers with for an outcome of the database
\* call: the HTTPException(404) of the else branch is raised inside the try and
\* caught by `except Exception`, which answers 500
delete_history_item(outcome) ==
    IF outcome.raised THEN 500
    ELSE IF outcome.value THEN 200
    ELSE 500

\* POST /api/history/save
SaveToHistory(user, raises) ==
    /\ \E id \in HistoryIds \ DOMAIN analysis_history :
        LET result == save_analysis(analysis_history, id, user, raises)
        IN  /\ analysis_history' = result.table
            /\ response' = IF result.raised THEN 500 ELSE 200
            /\ env' = [op |-> "save", user |-> user, raised |-> raises]
    /\ UNCHANGED <<input, cleaner, cleaned, report, stats, engine, insights, rerun,
                   disk, active_sessions, now, emptyCleaned, pc, second>>

\* DELETE /api/history/{history_id}
DeleteHistoryItem(history_id, user, raises) ==
    /\ LET outcome == delete_analysis(analysis_history, history_id, user, raises)
       IN  /\ analysis_history' = outcome.table
           /\ response' = delete_history_item(outcome)
           /\ env' = [op |-> "delete", history_id |-> history_id, user |-> user,
                      raised |-> raises,
                      deleted |-> outcome.table # analysis_history]
    /\ UNCHANGED <<input, cleaner, cleaned, report, stats, engine, insights, rerun,
                   disk, active_sessions, now, emptyCleaned, pc, second>>

NextHistory ==
    \/ \E user \in Users, raises \in BOOLEAN : SaveToHistory(user, raises)
    \/ \E history_id \in HistoryIds, user \in Users, raises \in BOOLEAN :
        DeleteHistoryItem(history_id, user, raises)
SpecHistory == Init /\ [][NextHistory]_vars

-----------------------------------------------------------------------------
(* The request handlers  (app.py)                                          *)

MaxClock == 1       \* seconds the wall clock may advance

\* what a client may upload: the bytes, kept as the table pandas reads from
\* them (parses = FALSE: pandas raises on them) and whether they exceed
\* MAX_FILE_SIZE
HeaderOnly == [columns |-> <<"category">>, dtypes |-> <<"obj">>, data |-> <<>>]
OneRow == [columns |-> <<"y">>, dtypes |-> <<"num">>, data |-> << <<Num(2)>> >>]
ZeroMean == [columns |-> <<"n1">>, dtypes |-> <<"num">>,
             data |-> << <<Num(-20)>>, <<Num(20)>> >>]
Contents ==
    {[parses |-> TRUE, table |-> HeaderOnly], [parses |-> TRUE, table |-> OneRow],
     [parses |-> TRUE, table |-> ZeroMean], [parses |-> FALSE, table |-> EmptyTable]}

Filenames == {"a.csv", "b.csv", "notes.txt"}

\* allowed_file
allowed_file(filename) == filename \in {"a.csv", "b.csv"}

\* os.path.join(UPLOAD_FOLDER, filename)
PathOf(filename) ==
    CASE filename = "a.csv" -> "uploads/a.csv"
      [] filename = "b.csv" -> "uploads/b.csv"
      [] OTHER -> "uploads/notes.txt"

\* the paths a client may name in a request
Paths == {PathOf(f) : f \in Filenames}

\* df.empty
IsEmpty(df) == NRows(df) = 0 \/ NCols(df) = 0

\* open(filepath, 'wb').write(content)
WriteFile(files, path, content) ==
    [f \in DOMAIN files \cup {path} |-> IF f = path THEN content ELSE files[f]]

\* POST /api/upload
UploadFile(filename, content, tooLarge) ==
    /\ IF ~allowed_file(filename) \/ tooLarge
       THEN /\ response' = 400
            /\ disk' = disk
       ELSE /\ disk' = WriteFile(disk, PathOf(filename), content)
            /\ response' = IF ~content.parses THEN 500
                           ELSE IF IsEmpty(content.table) THEN 400
                           ELSE 200
    /\ UNCHANGED <<input, cleaner, cleaned, report, stats, engine, insights, rerun,
                   active_sessions, now, emptyCleaned, pc, second,
                   env, analysis_history>>

\* the part the three handlers below share: the path check, the read and
\* DataCleaner(df).clean(); ran tells whether clean() was reached
ReadAndClean(filepath) ==
    IF filepath \notin DOMAIN disk
    THEN [status |-> 400, ran |-> FALSE, rows |-> 0, self |-> NewCleaner(EmptyTable)]
    ELSE IF ~disk[filepath].parses
    THEN [status |-> 500, ran |-> FALSE, rows |-> 0, self |-> NewCleaner(EmptyTable)]
    ELSE [status |-> 200, ran |-> TRUE, rows |-> NRows(disk[filepath].table),
          self |-> CleanSelf(NewCleaner(disk[filepath].table))]

\* POST /api/analyze; chartsOk: ChartGenerator.generate_all() did not raise
AnalyzeData(filepath, chartsOk) ==
    LET run == ReadAndClean(filepath)
        bundle == calculate_all(run.self.df, run.self.column_types)
        st == RunRules(<<>>, run.self.df, run.self.column_types, bundle)
    IN  /\ emptyCleaned' = (emptyCleaned \/ (run.ran /\ run.rows = 0))
        /\ response' = IF ~run.ran THEN run.status
                       ELSE IF ~chartsOk \/ st.raised THEN 500
                       ELSE 200
        /\ UNCHANGED <<input, cleaner, cleaned, report, stats, engine, insights, rerun,
                       disk, active_sessions, now, pc, second,
                   env, analysis_history>>

\* POST /api/generate-plotly-chart; named: a column name was given; config: the
\* chart generator's outcome, "none" when it returns no chart, "raise" when it
\* raises or the chart type is unknown
GeneratePlotlyChart(filepath, named, config) ==
    LET run == ReadAndClean(filepath)
        reached == run.status = 200 /\ named
    IN  /\ emptyCleaned' = (emptyCleaned \/ (reached /\ run.rows = 0))
        /\ response' = IF run.status # 200 THEN run.status
                       ELSE IF ~named THEN 400
                       ELSE IF config = "chart" THEN 200
                       ELSE IF config = "none" THEN 400
                       ELSE 500
        /\ UNCHANGED <<input, cleaner, cleaned, report, stats, engine, insights, rerun,
                       disk, active_sessions, now, pc, second,
                   env, analysis_history>>

\* session_id = f"session_{datetime.now().strftime('%Y%m%d_%H%M%S')}": the
\* clock's second
SessionId(t) == t

\* POST /api/chat/init; agentOk: RAGPipeline and AgentEngine were built
InitChat(filepath, agentOk) ==
    LET run == ReadAndClean(filepath)
        session_id == SessionId(now)
    IN  /\ emptyCleaned' = (emptyCleaned \/ (run.ran /\ run.rows = 0))
        /\ IF run.ran /\ agentOk
           THEN /\ active_sessions' =
                    [id \in DOMAIN active_sessions \cup {session_id} |->
                        IF id = session_id
                        THEN [filepath |-> filepath, rows |-> NRows(run.self.df),
                              created_at |-> now]
                        ELSE active_sessions[id]]
                /\ response' = 200
           ELSE /\ active_sessions' = active_sessions
                /\ response' = IF ~run.ran THEN run.status ELSE 500
        /\ UNCHANGED <<input, cleaner, cleaned, report, stats, engine, insights, rerun,
                       disk, now, pc, second,
                   env, analysis_history>>

\* a second passes
Tick ==
    /\ now < MaxClock
    /\ now' = now + 1
    /\ UNCHANGED <<input, cleaner, cleaned, report, stats, engine, insights, rerun,
                   disk, response, active_sessions, emptyCleaned, pc, second,
                   env, analysis_history>>

NextService ==
    \/ \E filename \in Filenames, content \in Contents, tooLarge \in BOOLEAN :
        UploadFile(filename, content, tooLarge)
    \/ \E filepath \in Paths, chartsOk \in BOOLEAN : AnalyzeData(filepath, chartsOk)
    \/ \E filepath \in Paths, named \in BOOLEAN, config \in {"chart", "none", "raise"} :
        GeneratePlotlyChart(filepath, named, config)
    \/ \E filepath \in Paths, agentOk \in BOOLEAN : InitChat(filepath, agentOk)
    \/ Tick
SpecService == Init /\ [][NextService]_vars

-----------------------------------------------------------------------------
(* Two runs of the pipeline on one input                                    *)

\* tables with nulls, duplicates, text and numbers, for two runs on one input
TwiceSchemas == {<<"x", "category">>, <<"n1", "n2">>}

ConstructTwice ==
    /\ pc = "idle"
    /\ \E schema \in TwiceSchemas, r \in 1..MaxRows :
        \E data \in [1..r -> RowsOver(schema, Len(schema))] :
            Construct(Table(schema, data))

\* time passes between the two runs
TickBetweenRuns == pc = "insights" /\ Tick

\* a second run on the same input, after the first one is over
SecondRun ==
    /\ pc = "insights"
    /\ second' = Pipeline(input, engine.insights)
    /\ pc' = "twice"
    /\ UNCHANGED <<input, cleaner, cleaned, report, stats, engine, insights, rerun,
                   disk, response, active_sessions, now, emptyCleaned,
                   env, analysis_history>>

NextTwice ==
    \/ ConstructTwice \/ Clean \/ CalculateAll \/ NewEngine \/ GenerateInsights
    \/ TickBetweenRuns \/ SecondRun
SpecTwice == Init /\ [][NextTwice]_vars

-----------------------------------------------------------------------------
(* Vocabulary of the properties: the input table as the specification       *)
(* describes it, independent of the cleaner's own bookkeeping               *)

\* clean() has returned
Cleaned == pc \notin {"idle", "new"}

\* the rows of a table with every exact duplicate of an earlier row removed
FirstOccurrences(df) ==
    SelectIdx(df.data,
              {i \in 1..NRows(df) : \A j \in 1..(i - 1) : df.data[j] # df.data[i]}, 1)

Pos(df, col) == CHOOSE i \in 1..NCols(df) : df.columns[i] = col
NullsAt(rows, i) == Cardinality({r \in 1..Len(rows) : rows[r][i].k = "nan"})
HasDuplicates(df) == Cardinality(Range(df.data)) < NRows(df)

\* the entries of an actions list that are about one column
ActionsAbout(actions, col) ==
    SelectSeq(actions, LAMBDA a : a.kind # "dedup" /\ a.col = col)

\* the k-th smallest of a sequence of numbers
KthSmallest(vals, k) ==
    CHOOSE x \in Range(vals) :
        /\ Cardinality({i \in 1..Len(vals) : vals[i] < x}) < k
        /\ Cardinality({i \in 1..Len(vals) : vals[i] <= x}) >= k

\* the numbers of column i among rows, nulls left out
NumbersAt(rows, i) ==
    LET keep == {r \in 1..Len(rows) : rows[r][i].k # "nan"}
        sel == SelectIdx(rows, keep, 1)
    IN  [r \in 1..Len(sel) |-> sel[r][i].n]

-----------------------------------------------------------------------------
(* Properties of the cleaner, checked under Spec                           *)

\* C1: after clean() the keys of column_types are exactly the columns of the
\* cleaned table, no key occurs twice, and every tag is one of the three types
C1_TypeMapMatchesColumns ==
    Cleaned =>
        /\ Keys(report.column_types) = Range(cleaned.columns)
        /\ Len(report.column_types) = Cardinality(Keys(report.column_types))
        /\ Len(report.column_types) = NCols(cleaned)
        /\ \A i \in 1..Len(report.column_types) :
            report.column_types[i].type \in {"numeric", "categorical", "datetime"}

\* a run that dropped one column and converted a text column to datetime
C1_Witness ==
    /\ pc = "cleaned"
    /\ NCols(cleaned) < NCols(input)
    /\ \E i \in 1..Len(report.column_types) :
        /\ report.column_types[i].type = "datetime"
        /\ input.dtypes[Pos(input, report.column_types[i].col)] = "obj"

\* C2 as stated: a column with more than half of its cells null in the ORIGINAL
\* input never appears in column_types
C2_OriginalFraction ==
    Cleaned =>
        \A i \in 1..NCols(input) :
            2 * NullsAt(input.data, i) > NRows(input)
                => input.columns[i] \notin Keys(report.column_types)

\* C2 amended: a column with more than half of its cells null among the rows
\* left after duplicate removal never appears in column_types
C2_DeduplicatedFraction ==
    Cleaned =>
        LET rows == FirstOccurrences(input)
        IN  \A i \in 1..NCols(input) :
                2 * NullsAt(rows, i) > Len(rows)
                    => input.columns[i] \notin Keys(report.column_types)

\* duplicates were removed, and a column mostly null before and after is gone
C2_Witness ==
    /\ pc = "cleaned"
    /\ HasDuplicates(input)
    /\ NCols(cleaned) >= 1
    /\ \E i \in 1..NCols(input) :
        /\ 2 * NullsAt(FirstOccurrences(input), i) > Len(FirstOccurrences(input))
        /\ 2 * NullsAt(input.data, i) > NRows(input)
        /\ input.columns[i] \notin Keys(report.column_types)

\* C3 as stated: a fresh cleaner run on the cleaned table records nothing
C3_RerunRecordsNothing == pc = "recleaned" => rerun.actions = <<>>

\* C3 amended: a fresh cleaner run on the cleaned table finds no missing value
\* (no drop, no imputation); it records nothing when the cleaned table has no
\* two equal rows or no column left, and otherwise exactly one duplicate-removal
\* entry with the number of rows that repeat an earlier one
C3_RerunOnlyDeduplicates ==
    pc = "recleaned" =>
        /\ \A i \in 1..Len(rerun.actions) : rerun.actions[i].kind = "dedup"
        /\ Len(rerun.actions) <= 1
        /\ (rerun.actions = <<>>) <=> (~HasDuplicates(cleaned) \/ NCols(cleaned) = 0)
        /\ rerun.actions # <<>> =>
            rerun.actions[1].count = NRows(cleaned) - Cardinality(Range(cleaned.data))

\* the first run imputed and dropped, and the second run found nothing to do
C3_Witness ==
    /\ pc = "recleaned"
    /\ \E i \in 1..Len(cleaner.cleaning_report) : cleaner.cleaning_report[i].kind = "median"
    /\ \E i \in 1..Len(cleaner.cleaning_report) : cleaner.cleaning_report[i].kind = "drop"
    /\ rerun.actions = <<>>

\* C4: in a numeric column that is kept and has a null after duplicate removal,
\* every null cell ends up holding the median of the column's non-null values
\* (the mean of the two middle ones when their number is even) and every other
\* cell is unchanged
C4_ImputedWithMedian ==
    Cleaned =>
        LET rows == FirstOccurrences(input)
        IN  /\ NRows(cleaned) = Len(rows)
            /\ \A i \in 1..NCols(input) :
                (/\ input.dtypes[i] = "num"
                 /\ input.columns[i] \in Range(cleaned.columns)
                 /\ NullsAt(rows, i) > 0)
                    => LET vals == NumbersAt(rows, i)
                           lo == KthSmallest(vals, (Len(vals) + 1) \div 2)
                           hi == KthSmallest(vals, Len(vals) \div 2 + 1)
                           c == Pos(cleaned, input.columns[i])
                       IN  \A r \in 1..Len(rows) :
                            IF rows[r][i].k = "nan"
                            THEN /\ cleaned.data[r][c].k = "num"
                                 /\ 2 * cleaned.data[r][c].n = lo + hi
                            ELSE cleaned.data[r][c] = rows[r][i]

\* a null filled with 1.5, the mean of the two middle values 1 and 2
C4_Witness ==
    /\ pc = "cleaned"
    /\ \E i \in 1..NCols(input), r \in 1..NRows(cleaned) :
        /\ input.dtypes[i] = "num"
        /\ input.columns[i] \in Range(cleaned.columns)
        /\ NRows(cleaned) = NRows(input)
        /\ input.data[r][i] = NaN
        /\ cleaned.data[r][Pos(cleaned, input.columns[i])] = Num(3)

\* a column whose every cell is null after duplicate removal
AllNullColumns ==
    {i \in 1..NCols(input) :
        NullsAt(FirstOccurrences(input), i) = Len(FirstOccurrences(input))}

\* C9 as stated, for the columns the sentinel is meant for: an all-null column
\* that is not numeric is kept, filled with 'Unknown', and the fill is recorded
C9_SentinelFill ==
    pc = "cleaned" =>
        \A i \in {j \in AllNullColumns : input.dtypes[j] # "num"} :
            /\ input.columns[i] \in Range(cleaned.columns)
            /\ input.columns[i] \in Keys(report.column_types)
            /\ \E k \in 1..Len(cleaner.cleaning_report) :
                /\ cleaner.cleaning_report[k].kind = "unknown"
                /\ cleaner.cleaning_report[k].col = input.columns[i]
            /\ \A r \in 1..NRows(cleaned) :
                cleaned.data[r][Pos(cleaned, input.columns[i])] = Str("Unknown")

\* C9 amended: an all-null column is no failure and never reaches the sentinel:
\* it is dropped by the 50% rule, its one record is a drop citing 100.0%, it is
\* in neither the cleaned table nor the type map, and no 'Unknown' fill is ever
\* recorded
C9_AllNullDropped ==
    pc = "cleaned" =>
        /\ \A i \in AllNullColumns :
            /\ input.columns[i] \notin Range(cleaned.columns)
            /\ input.columns[i] \notin Keys(report.column_types)
            /\ LET about == ActionsAbout(cleaner.cleaning_report, input.columns[i])
               IN  Len(about) = 1 /\ about[1].kind = "drop" /\ about[1].pct = 1000
        /\ \A k \in 1..Len(cleaner.cleaning_report) :
            cleaner.cleaning_report[k].kind # "unknown"

\* an all-null text column beside a column that survives
C9_Witness ==
    /\ pc = "cleaned"
    /\ NCols(cleaned) >= 1
    /\ \E i \in AllNullColumns : input.dtypes[i] = "obj"

\* C10: a column is dropped iff more than half of its cells are null when the
\* missing values are handled; a dropped column has exactly one record, a drop
\* citing the percentage to one decimal (100.0 for an all-null column); a column
\* with nulls that is not dropped, one with exactly half included, is kept with
\* every null filled and exactly one imputation record
C10_DropRule ==
    pc = "cleaned" =>
        LET rows == FirstOccurrences(input)
        IN  \A i \in 1..NCols(input) :
                LET col == input.columns[i]
                    m == NullsAt(rows, i)
                    about == ActionsAbout(cleaner.cleaning_report, col)
                IN  /\ col \notin Range(cleaned.columns) <=> 2 * m > Len(rows)
                    /\ 2 * m > Len(rows) =>
                        /\ Len(about) = 1
                        /\ about[1].kind = "drop"
                        /\ 2 * Abs(1000 * m - about[1].pct * Len(rows)) <= Len(rows)
                        /\ m = Len(rows) => about[1].pct = 1000
                    /\ (m > 0 /\ 2 * m <= Len(rows)) =>
                        /\ Len(about) = 1
                        /\ about[1].kind \in {"median", "mode"}
                        /\ about[1].count = m
                        /\ NullsAt(cleaned.data, Pos(cleaned, col)) = 0
                    /\ m = 0 => about = <<>>

\* one column with exactly half of its cells null is kept and imputed, beside
\* an all-null column dropped at 100.0%
C10_Witness ==
    /\ pc = "cleaned"
    /\ \E i, j \in 1..NCols(input) :
        /\ 2 * NullsAt(FirstOccurrences(input), i) = Len(FirstOccurrences(input))
        /\ input.columns[i] \in Range(cleaned.columns)
        /\ j \in AllNullColumns
        /\ \E k \in 1..Len(cleaner.cleaning_report) :
            /\ cleaner.cleaning_report[k].kind = "drop"
            /\ cleaner.cleaning_report[k].col = input.columns[j]
            /\ cleaner.cleaning_report[k].pct = 1000

-----------------------------------------------------------------------------
(* More properties of the cleaner, checked under Spec                      *)

\* C11: the report's original_rows / original_cols are the shape of the table
\* given to the constructor, its cleaned_rows / cleaned_cols the shape of the
\* table returned with it, and neither count grows
C11_ReportShapes ==
    Cleaned =>
        /\ report.original_rows = NRows(input)
        /\ report.original_cols = NCols(input)
        /\ report.cleaned_rows = NRows(cleaned)
        /\ report.cleaned_cols = NCols(cleaned)
        /\ report.cleaned_rows <= report.original_rows
        /\ report.cleaned_cols <= report.original_cols

\* a run that removed a duplicate row and dropped a column
C11_Witness ==
    /\ pc = "cleaned"
    /\ report.cleaned_rows < report.original_rows
    /\ report.cleaned_cols < report.original_cols
    /\ report.cleaned_cols >= 1

\* the duplicate-removal entries of the cleaner's action list
DedupActions == SelectSeq(cleaner.cleaning_report, LAMBDA a : a.kind = "dedup")

\* a cell of the cleaned table holds the value v of the input: v itself, or the
\* day v denotes when the column was converted to datetime
SameValue(cell, v) ==
    \/ cell = v
    \/ v.k = "str" /\ v.s \in DateStrings /\ cell = Ts(DateValue(v.s))

\* C12: the cleaned table has one row per distinct input row, standing where
\* the row's first occurrence stood and holding its values; one 'Removed N
\* duplicate row(s)' entry is recorded iff N > 0, it is the first entry, and N
\* is original_rows - cleaned_rows
C12_FirstOccurrencesKept ==
    Cleaned =>
        LET rows == FirstOccurrences(input)
            N == NRows(input) - Len(rows)
        IN  /\ NRows(cleaned) = Len(rows)
            /\ Len(rows) = Cardinality(Range(input.data))
            /\ \A i \in 1..NCols(input) :
                input.columns[i] \in Range(cleaned.columns) =>
                    \A r \in 1..Len(rows) :
                        rows[r][i].k # "nan" =>
                            SameValue(cleaned.data[r][Pos(cleaned, input.columns[i])],
                                      rows[r][i])
            /\ Len(DedupActions) <= 1
            /\ (DedupActions # <<>>) <=> (N > 0)
            /\ N > 0 =>
                /\ cleaner.cleaning_report[1].kind = "dedup"
                /\ cleaner.cleaning_report[1].count = N
            /\ N = report.original_rows - report.cleaned_rows

\* the third row repeats the first and the second differs: rows one and two
\* remain, in that order, and one removal is recorded
C12_Witness ==
    /\ pc = "cleaned"
    /\ NRows(input) = 3
    /\ input.data[3] = input.data[1]
    /\ input.data[2] # input.data[1]
    /\ NCols(cleaned) = NCols(input)
    /\ NRows(cleaned) = 2
    /\ DedupActions = <<Action("dedup", "", 1, 0, NaN)>>

\* the tag column_types gives a column
TagOf(col) ==
    report.column_types[CHOOSE k \in 1..Len(report.column_types) :
                            report.column_types[k].col = col].type

\* C13: a surviving column read as numbers is tagged 'numeric', one read as
\* dates 'datetime'; any other is tagged 'datetime' and converted iff every
\* value it holds parses as a date, and otherwise 'categorical' with its values
\* unchanged; clean() returns in every case
C13_TypeInference ==
    Cleaned =>
        LET rows == FirstOccurrences(input)
        IN  \A i \in 1..NCols(input) :
                LET col == input.columns[i]
                    c == Pos(cleaned, col)
                    allDates == \A r \in 1..Len(rows) :
                                    rows[r][i].k = "nan" \/ rows[r][i].s \in DateStrings
                IN  col \in Range(cleaned.columns) =>
                        /\ input.dtypes[i] = "num" => TagOf(col) = "numeric"
                        /\ input.dtypes[i] = "dt" => TagOf(col) = "datetime"
                        /\ input.dtypes[i] = "obj" =>
                            /\ TagOf(col) = (IF allDates THEN "datetime" ELSE "categorical")
                            /\ allDates =>
                                /\ cleaned.dtypes[c] = "dt"
                                /\ \A r \in 1..NRows(cleaned) : cleaned.data[r][c].k = "ts"
                            /\ ~allDates =>
                                /\ cleaned.dtypes[c] = "obj"
                                /\ \A r \in 1..NRows(cleaned) : cleaned.data[r][c].k = "str"
                                /\ \A r \in 1..Len(rows) :
                                    rows[r][i].k # "nan" => cleaned.data[r][c] = rows[r][i]

\* a text column holding a date and a word stays categorical beside a numeric
\* column
C13_Witness ==
    /\ pc = "cleaned"
    /\ \E i, j \in 1..NCols(input) :
        /\ input.dtypes[i] = "obj"
        /\ \E r, q \in 1..NRows(input) :
            /\ input.data[r][i] = Str("2020-01-01")
            /\ input.data[q][i] = Str("A")
        /\ input.columns[i] \in Range(cleaned.columns)
        /\ TagOf(input.columns[i]) = "categorical"
        /\ input.columns[j] \in Range(cleaned.columns)
        /\ TagOf(input.columns[j]) = "numeric"

-----------------------------------------------------------------------------
(* Properties of the insight rules, checked under SpecInsight              *)

\* generate_insights() has returned a list
Returned == pc = "insights" /\ ~insights.raised

SummariesIn(list) == {i \in 1..Len(list) : list[i].rule = "quality"}

\* C5 as stated: the returned list holds exactly one data-quality summary, and
\* it is the last entry
C5_SummaryAlwaysLast ==
    Returned =>
        /\ Cardinality(SummariesIn(insights.list)) = 1
        /\ insights.list[Len(insights.list)].rule = "quality"

\* C5 amended: a call on a fresh engine appends exactly one summary, after every
\* other observation, citing the cleaned table's row and column counts; the
\* returned list is the first 7 entries, so it holds the summary (once, last)
\* iff the earlier rules emitted at most 6 observations, and none otherwise
C5_SummaryLastUnlessCapped ==
    Returned =>
        LET all == engine.insights
            earlier == Len(all) - 1
        IN  /\ SummariesIn(all) = {Len(all)}
            /\ all[Len(all)].a = NRows(cleaned) /\ all[Len(all)].b = NCols(cleaned)
            /\ Len(insights.list) <= 7
            /\ \A i \in 1..Len(insights.list) : insights.list[i] = all[i]
            /\ earlier <= 6 =>
                /\ SummariesIn(insights.list) = {Len(insights.list)}
                /\ Len(insights.list) = earlier + 1
            /\ earlier >= 7 => SummariesIn(insights.list) = {}

\* six observations before the summary: it is the seventh and last entry
C5_Witness ==
    /\ Returned
    /\ Len(engine.insights) = 7
    /\ insights.list[7].rule = "quality"

\* the numeric columns of the cleaned table with at least two rows, all holding
\* the same non-zero number: their standard deviation is exactly 0
ConstantColumns ==
    {i \in 1..NCols(cleaned) :
        /\ cleaned.dtypes[i] = "num"
        /\ NRows(cleaned) >= 2
        /\ \A r \in 1..NRows(cleaned) :
            cleaned.data[r][i] = cleaned.data[1][i] /\ cleaned.data[r][i].n # 0}

RulesFor(col) ==
    {engine.insights[k].rule : k \in {j \in 1..Len(engine.insights) : engine.insights[j].col = col}}

ChangePct(col) ==
    LET v == NumbersAt(cleaned.data, Pos(cleaned, col))
        h == Len(v) \div 2
        s1 == SumSeq(SubSeq(v, 1, h))
        s2 == SumSeq(SubSeq(v, h + 1, Len(v)))
    IN  [len |-> Len(v), first |-> s1,
         num |-> 100 * (s2 * h - s1 * (Len(v) - h)), den |-> s1 * (Len(v) - h)]

\* the trend observations the rule is said to make for a list of columns, given
\* which first-half means it skips
RECURSIVE TrendsFor(_, _)
TrendsFor(cols, skipNegative) ==
    IF cols = <<>> THEN <<>>
    ELSE LET c == ChangePct(Head(cols))
             considered == /\ c.len >= 3
                           /\ c.first # 0
                           /\ (skipNegative => c.first > 0)
         IN  (IF considered /\ Abs(c.num) > 10 * Abs(c.den)
              THEN <<[col |-> Head(cols),
                      label |-> IF c.num * c.den > 0 THEN "upward" ELSE "downward"]>>
              ELSE <<>>) \o TrendsFor(Tail(cols), skipNegative)

FirstTwoNumeric ==
    LET numeric == SelectSeq(report.column_types, LAMBDA e : e.type = "numeric")
    IN  [i \in 1..(IF Len(numeric) < 2 THEN Len(numeric) ELSE 2) |-> numeric[i].col]

ObservedTrends ==
    LET trends == SelectSeq(engine.insights, LAMBDA o : o.rule = "trend")
    IN  [i \in 1..Len(trends) |-> [col |-> trends[i].col, label |-> trends[i].label]]

\* C8 as stated: the trend observations are exactly those of the first two
\* numeric columns with at least 3 values, a first-half mean other than zero
\* (negative included) and |change_pct| > 10, 'upward' iff change_pct > 0
C8_TrendAnyNonZeroBase == Returned => ObservedTrends = TrendsFor(FirstTwoNumeric, FALSE)

\* C8 amended: the same, for a first-half mean strictly greater than zero; a
\* column whose first-half mean is zero or negative is skipped
C8_TrendPositiveBase == Returned => ObservedTrends = TrendsFor(FirstTwoNumeric, TRUE)

\* a column with a negative first-half mean and a large change is skipped while
\* the next column is reported as 'upward'
C8_Witness ==
    /\ Returned
    /\ Len(FirstTwoNumeric) = 2
    /\ ChangePct(FirstTwoNumeric[1]).len >= 3
    /\ ChangePct(FirstTwoNumeric[1]).first < 0
    /\ ObservedTrends = <<[col |-> FirstTwoNumeric[2], label |-> "upward"]>>

-----------------------------------------------------------------------------
(* More properties of the insight rules, checked under SpecInsight          *)

\* the place of a rule in the sequence generate_insights() runs
RuleRank(rule) ==
    CASE rule \in {"high_variability", "consistent"} -> 1
      [] rule \in {"dominates", "unique"} -> 2
      [] rule = "trend" -> 3
      [] rule = "correlation" -> 4
      [] OTHER -> 5

\* the place of a column in the type map
TypeMapPos(col) ==
    CHOOSE k \in 1..Len(report.column_types) : report.column_types[k].col = col

\* C14: the returned list has at most 7 entries, in the order the rules run:
\* variability, categorical, trend, correlation, summary; the observations of
\* one per-column rule follow the type map's order, which is the original
\* column order
C14_RuleOrder ==
    Returned =>
        LET list == insights.list
        IN  /\ Len(list) <= 7
            /\ \A i, j \in 1..Len(list) :
                i < j =>
                    /\ RuleRank(list[i].rule) <= RuleRank(list[j].rule)
                    /\ (RuleRank(list[i].rule) = RuleRank(list[j].rule)
                            /\ RuleRank(list[i].rule) <= 3) =>
                        /\ TypeMapPos(list[i].col) < TypeMapPos(list[j].col)
                        /\ Pos(input, list[i].col) < Pos(input, list[j].col)

\* a list with entries of all five rules, two of them variability observations
C14_Witness ==
    /\ Returned
    /\ {RuleRank(insights.list[i].rule) : i \in 1..Len(insights.list)} = 1..5
    /\ Cardinality({i \in 1..Len(insights.list) : RuleRank(insights.list[i].rule) = 1}) >= 2

\* the variability observations about one column
VariabilityFor(col) ==
    SelectSeq(engine.insights, LAMBDA o : RuleRank(o.rule) = 1 /\ o.col = col)

\* C15, for the columns whose standard deviation is above zero: once
\* generate_insights() is over, each has exactly one variability observation,
\* 'high variability' when std / mean * 100 > 50 and 'consistent values'
\* otherwise
C15_OneObservationPerColumn ==
    pc = "insights" =>
        \A k \in 1..Len(stats.numeric_stats) :
            LET s == stats.numeric_stats[k]
                high == /\ s.mean.num > 0
                        /\ 4 * s.std2.num * s.mean.den * s.mean.den
                                > s.mean.num * s.mean.num * s.std2.den
            IN  (~s.std2.nan /\ s.std2.num > 0) =>
                    /\ Len(VariabilityFor(s.col)) = 1
                    /\ VariabilityFor(s.col)[1].rule =
                            (IF high THEN "high_variability" ELSE "consistent")

\* the categorical columns of the type map, and what the rule said of one
CategoricalColumns ==
    {report.column_types[k].col :
        k \in {j \in 1..Len(report.column_types) :
                    report.column_types[j].type = "categorical"}}
DominanceFor(col) ==
    SelectSeq(engine.insights, LAMBDA o : RuleRank(o.rule) = 2 /\ o.col = col)

\* how often the most frequent value of a column of the cleaned table occurs,
\* and how many distinct values the column holds
TopCount(col) ==
    LET c == Pos(cleaned, col)
        count(v) == Cardinality({r \in 1..NRows(cleaned) : cleaned.data[r][c] = v})
    IN  CHOOSE n \in 1..NRows(cleaned) :
            /\ \E r \in 1..NRows(cleaned) : count(cleaned.data[r][c]) = n
            /\ \A r \in 1..NRows(cleaned) : count(cleaned.data[r][c]) <= n
Distinct(col) ==
    Cardinality({cleaned.data[r][Pos(cleaned, col)] : r \in 1..NRows(cleaned)})

\* C16: when generate_insights() returns, every categorical column has exactly
\* one observation: 'dominates' iff its most frequent value fills more than
\* half of the rows, otherwise 'unique values' with the number of distinct
\* values; both cite the share to one decimal, 60.0% for the table of
\* Scenario A
C16_DominanceRule ==
    Returned =>
        /\ \A col \in CategoricalColumns :
            LET about == DominanceFor(col)
                n == TopCount(col)
            IN  /\ Len(about) = 1
                /\ about[1].rule = (IF 2 * n > NRows(cleaned) THEN "dominates" ELSE "unique")
                /\ 2 * Abs(1000 * n - about[1].a * NRows(cleaned)) <= NRows(cleaned)
                /\ about[1].rule = "unique" => about[1].b = Distinct(col)
        /\ input = ScenarioA =>
            /\ CategoricalColumns = {"category"}
            /\ DominanceFor("category") = <<Obs("dominates", "category", "A", 600, 0)>>

\* Scenario A was analysed and the returned list holds the 60.0% observation
C16_Witness ==
    /\ Returned
    /\ input = ScenarioA
    /\ \E i \in 1..Len(insights.list) :
        insights.list[i] = Obs("dominates", "category", "A", 600, 0)

CorrelationObservations == SelectSeq(engine.insights, LAMBDA o : o.rule = "correlation")

\* C17: when generate_insights() returns there is at most one correlation
\* observation; there is one iff top_correlations has a first entry whose
\* coefficient is a number with |r| > 0.7 (r^2 > 0.49), it names that entry and
\* says 'strong positive' iff r > 0; for the table with y = 2x the first
\* entry's coefficient is 1 and the rule fires
C17_StrongestOnly ==
    Returned =>
        LET top == stats.correlations.top_correlations
            strong == /\ Len(top) >= 1
                      /\ ~top[1].correlation.nan
                      /\ 100 * top[1].correlation.num > 49 * top[1].correlation.den
        IN  /\ Len(CorrelationObservations) = (IF strong THEN 1 ELSE 0)
            /\ strong =>
                /\ CorrelationObservations[1].col = top[1].col1
                /\ CorrelationObservations[1].label =
                        (IF top[1].correlation.sign > 0
                         THEN "strong positive" ELSE "strong negative")
            /\ input = ScenarioB =>
                /\ Len(top) = 1
                /\ top[1].col1 = "x" /\ top[1].col2 = "y"
                /\ top[1].correlation.sign = 1
                /\ top[1].correlation.num = top[1].correlation.den
                /\ CorrelationObservations = <<Obs("correlation", "x", "strong positive", 0, 0)>>

\* the table with y = 2x was analysed and the observation is in the returned list
C17_Witness ==
    /\ Returned
    /\ input = ScenarioB
    /\ \E i \in 1..Len(insights.list) : insights.list[i].rule = "correlation"

-----------------------------------------------------------------------------
(* Properties of the correlations, checked under SpecCorr                   *)

\* the numeric columns in type-map order, and every pair of them: first column
\* before second column
NumericColumns ==
    LET numeric == SelectSeq(report.column_types, LAMBDA e : e.type = "numeric")
    IN  [i \in 1..Len(numeric) |-> numeric[i].col]
NumericPairs ==
    {<<NumericColumns[p[1]], NumericColumns[p[2]]>> :
        p \in {q \in (1..Len(NumericColumns)) \X (1..Len(NumericColumns)) : q[1] < q[2]}}
TopPairs ==
    [e \in 1..Len(stats.correlations.top_correlations) |->
        <<stats.correlations.top_correlations[e].col1,
          stats.correlations.top_correlations[e].col2>>]

\* C18: with k numeric columns top_correlations has min(5, k(k-1)/2) entries
\* (the section is absent when k < 2); every entry is a pair of distinct
\* numeric columns, first before second in type-map order, with the pair's
\* coefficient, and no pair occurs twice
C18_CorrelationCount ==
    pc = "stats" =>
        LET k == Len(NumericColumns)
            pairs == (k * (k - 1)) \div 2
        IN  /\ Len(TopPairs) = (IF pairs < 5 THEN pairs ELSE 5)
            /\ stats.correlations.present <=> k >= 2
            /\ Range(TopPairs) \subseteq NumericPairs
            /\ Cardinality(Range(TopPairs)) = Len(TopPairs)
            /\ \A e \in 1..Len(TopPairs) :
                stats.correlations.top_correlations[e].correlation =
                    Corr(cleaned, TopPairs[e][1], TopPairs[e][2])

\* four numeric columns: six pairs, five of them listed
C18_Witness ==
    /\ pc = "stats"
    /\ Len(NumericColumns) = 4
    /\ Len(TopPairs) = 5

\* C19, the consequence the claim draws: no pair left out of top_correlations
\* has a strictly larger absolute correlation than a pair listed in it
C19_TopHoldsStrongest ==
    pc = "stats" =>
        \A out \in NumericPairs \ Range(TopPairs) :
            \A e \in 1..Len(TopPairs) :
                ~AbsLess(stats.correlations.top_correlations[e].correlation,
                         Corr(cleaned, out[1], out[2]))

-----------------------------------------------------------------------------
(* Two runs on one input, checked under SpecTwice                           *)

-----------------------------------------------------------------------------
(* Properties of the request handlers, checked under SpecService           *)

\* C7: no sequence of upload, analyze, chart and chat-init requests makes
\* DataCleaner.clean() run on a table with zero rows
C7_NeverCleansEmptyTable == ~emptyCleaned

-----------------------------------------------------------------------------
(* Statistics with columns left out, checked under SpecPartial              *)

\* the columns whose reductions raised in calculate_all()
Raising == IF "raising" \in DOMAIN env THEN env.raising ELSE {}

\* the columns a list of per-column statistics has an entry for, in order
StatKeys(entries) == [i \in 1..Len(entries) |-> entries[i].col]

\* the sequence without the members of a set
Without(seq, set) == SelectSeq(seq, LAMBDA c : c \notin set)

\* the statistics hold exactly the columns of each type whose reductions did
\* not raise, in type-map order, each with the entry the full pass computes
StatsKeepTheRest ==
    pc \in {"stats", "engine", "insights"} =>
        /\ StatKeys(stats.numeric_stats)
             = Without(ColumnsOfType(report.column_types, "numeric"), Raising)
        /\ StatKeys(stats.categorical_stats)
             = Without(ColumnsOfType(report.column_types, "categorical"), Raising)
        /\ \A i \in 1..Len(stats.numeric_stats) :
             stats.numeric_stats[i] = NumericStat(cleaned, stats.numeric_stats[i].col)
        /\ \A i \in 1..Len(stats.categorical_stats) :
             stats.categorical_stats[i]
               = CategoricalStat(cleaned, stats.categorical_stats[i].col)
        /\ stats.overview = _get_overview(cleaned, report.column_types)
        /\ stats.correlations = _get_correlations(cleaned, report.column_types)

\* the variability and dominance rules say nothing about a left-out column
NothingForOmitted ==
    pc = "insights" =>
        \A i \in 1..Len(engine.insights) :
            engine.insights[i].rule \in {"high_variability", "consistent",
                                         "dominates", "unique"}
                => engine.insights[i].col \notin Raising

-----------------------------------------------------------------------------
(* The overview, checked under SpecTwice                                    *)

\* C24: for the cleaned table and type map of one clean() call, the overview's
\* total_rows and total_columns are the cleaned table's row and column counts,
\* and numeric_columns + categorical_columns + datetime_columns = total_columns
C24_OverviewConsistent ==
    pc \in {"stats", "engine", "insights", "twice"} =>
        /\ stats.overview.total_rows = NRows(cleaned)
        /\ stats.overview.total_columns = NCols(cleaned)
        /\ stats.overview.numeric_columns + stats.overview.categorical_columns
              + stats.overview.datetime_columns = stats.overview.total_columns

\* a cleaned table with a numeric column beside a datetime column, after a
\* column or a row was removed
C24_Witness ==
    /\ pc = "stats"
    /\ stats.overview.numeric_columns = 1
    /\ stats.overview.datetime_columns = 1
    /\ stats.overview.total_rows < NRows(input)

-----------------------------------------------------------------------------
(* Nulls and the order of the records, checked under Spec                   *)

\* C25: after clean() on a table with at least one row the cleaned table has
\* no null cell: every column with a null after deduplication is either
\* dropped or has each of its nulls filled with one value, the median for a
\* numeric column and the mode for any other, and that value is not null
C25_NoNullAfterClean ==
    (pc = "cleaned" /\ NRows(input) >= 1) =>
        LET rows == FirstOccurrences(input)
        IN  /\ \A r \in 1..NRows(cleaned), c \in 1..NCols(cleaned) :
                    ~isna(cleaned.data[r][c])
            /\ \A i \in 1..NCols(input) :
                    LET col == input.columns[i]
                        about == ActionsAbout(cleaner.cleaning_report, col)
                    IN  (NullsAt(rows, i) > 0 /\ col \in Range(cleaned.columns)) =>
                            /\ Len(about) = 1
                            /\ about[1].kind
                                 = (IF input.dtypes[i] = "num" THEN "median" ELSE "mode")
                            /\ ~isna(about[1].val)
                            /\ \A r \in 1..Len(rows) :
                                 SameValue(cleaned.data[r][Pos(cleaned, col)],
                                           IF isna(rows[r][i]) THEN about[1].val
                                           ELSE rows[r][i])

\* the columns of the input that hold a null once duplicate rows are gone, in
\* column order
NullColumns ==
    LET rows == FirstOccurrences(input)
        keep == {i \in 1..NCols(input) : NullsAt(rows, i) > 0}
    IN  SelectIdx(input.columns, keep, 1)

\* C26: the actions list of one clean() on a fresh DataCleaner holds at most
\* one deduplication record, which is the first entry when present, then
\* exactly one record, a drop or an imputation, for each column with a null
\* after deduplication, in original column order, and none for any other
\* column: every column is visited once although columns are dropped on the way
C26_ActionOrder ==
    pc = "cleaned" =>
        LET actions == cleaner.cleaning_report
            N == NRows(input) - Len(FirstOccurrences(input))
            rest == IF N > 0 THEN Tail(actions) ELSE actions
        IN  /\ N > 0 => (Len(actions) >= 1 /\ actions[1].kind = "dedup")
            /\ Len(rest) = Len(NullColumns)
            /\ \A k \in 1..Len(rest) :
                    /\ rest[k].kind \in {"drop", "median", "mode", "unknown"}
                    /\ rest[k].col = NullColumns[k]

\* a deduplication record, then the drop of the first column, then the
\* imputation of the second
C26_Witness ==
    /\ pc = "cleaned"
    /\ Len(cleaner.cleaning_report) = 3
    /\ cleaner.cleaning_report[1].kind = "dedup"
    /\ cleaner.cleaning_report[2].kind = "drop"
    /\ cleaner.cleaning_report[2].col = input.columns[1]
    /\ cleaner.cleaning_report[3].kind \in {"median", "mode"}
    /\ cleaner.cleaning_report[3].col = input.columns[2]

\* a numeric column filled with its median beside a text column filled with
\* its mode
C25_Witness ==
    /\ pc = "cleaned"
    /\ \E i \in 1..Len(cleaner.cleaning_report) :
         cleaner.cleaning_report[i].kind = "median" /\ ~isna(cleaner.cleaning_report[i].val)
    /\ \E i \in 1..Len(cleaner.cleaning_report) :
         cleaner.cleaning_report[i].kind = "mode" /\ ~isna(cleaner.cleaning_report[i].val)
    /\ \A r \in 1..NRows(cleaned), c \in 1..NCols(cleaned) : ~isna(cleaned.data[r][c])

-----------------------------------------------------------------------------
(* The caller's table, checked under Spec                                   *)

\* C22: constructing a DataCleaner and running clean() leaves the caller's
\* input table as it was, rows, columns, cells (nulls included) and column
\* types: the cleaner works on a frame of its own, never on the caller's, and
\* no step after the construction changes the input.
C22_InputUnchanged ==
    [][/\ cleaner'.shares # "input"
       /\ pc # "idle" => input' = input]_vars

\* clean() has filled a null of an input that still holds it
C22_Witness ==
    /\ pc = "cleaned"
    /\ \E i \in 1..Len(cleaner.cleaning_report) :
            cleaner.cleaning_report[i].kind \in {"median", "mode"}
    /\ \E r \in 1..NRows(input), c \in 1..NCols(input) : isna(input.data[r][c])
    /\ \A r \in 1..NRows(cleaned), c \in 1..NCols(cleaned) : ~isna(cleaned.data[r][c])
-----------------------------------------------------------------------------
(* The report after the call, checked under SpecAgain                       *)

\* the list a report's 'actions' entry refers to, as it reads now
ActionsOf(rep) == IF rep.actions = "cleaner" THEN cleaner.cleaning_report ELSE <<>>

\* C23: once clean() has returned a report, no later operation on the same
\* DataCleaner (a second clean(), get_preview()) changes the report's actions
\* list, its counts or its column_types map, nor the cleaned table returned
\* with it.
C23_ReportStaysAsReturned ==
    [][(pc \in {"cleaned", "again"}) =>
            (/\ ActionsOf(report)' = ActionsOf(report)
             /\ report' = report
             /\ cleaned' = cleaned)]_vars

\* what does stay as returned: the counts, the column_types map and the
\* cleaned table
ReportCountsStay ==
    [][(pc \in {"cleaned", "again"}) => (report' = report /\ cleaned' = cleaned)]_vars
-----------------------------------------------------------------------------
(* Raising and repeated calls of generate_insights()                        *)

\* C27, checked under SpecInsight: generate_insights() returns a list without
\* raising for every cleaned table with at least one row and the statistics
\* computed from it, a numeric column with mean 0 and a positive standard
\* deviation and a single-row table included.
C27_NeverRaises ==
    (pc = "insights" /\ NRows(cleaned) >= 1) => ~insights.raised

\* what does hold: the call raises only over a numeric column whose mean is 0
\* while its standard deviation is above 0; a single-row table never raises
RaisesOnlyOnZeroMean ==
    (pc = "insights" /\ insights.raised) =>
        /\ NRows(cleaned) >= 2
        /\ \E k \in 1..Len(stats.numeric_stats) :
            /\ stats.numeric_stats[k].mean.num = 0
            /\ StdPositive(stats.numeric_stats[k].std2)

\* C28, checked under SpecRepeat: a second generate_insights() on the same
\* InsightEngine returns the list the first call returned: nothing of the
\* earlier call is accumulated into the later result or displaces its entries.
C28_RepeatedCallSameList ==
    [][(pc = "insights" /\ pc' = "insights_again") => insights' = insights]_vars
-----------------------------------------------------------------------------
(* Sessions, checked under SpecService                                      *)

\* C29: every successful init_chat stores its session under an id that is not
\* yet a key of active_sessions: no sequence of init_chat requests, two within
\* one wall-clock second included, overwrites an existing session or hands the
\* same id to two clients.
C29_SessionIdsFresh ==
    [][\A id \in DOMAIN active_sessions :
            /\ id \in DOMAIN active_sessions'
            /\ active_sessions'[id] = active_sessions[id]]_vars
-----------------------------------------------------------------------------
(* The analysis history, checked under SpecHistory                          *)

\* C30: delete_history_item answers 404 'History item not found' when nothing
\* was deleted, and 500 only when the database call itself raises.
C30_NotFoundAnswers404 ==
    env.op = "delete" =>
        /\ (~env.raised /\ ~env.deleted) => response = 404
        /\ response = 500 => env.raised

\* what the handler does answer: 200 whenever the database call returns, a row
\* deleted or not, and 500 when it raises; never 404
DeleteAnswers ==
    env.op = "delete" => response = (IF env.raised THEN 500 ELSE 200)
====
